---- MODULE Spec2Model ----
(***************************************************************************)
(* Model of the event-rate wrappers of ilpoo/events: throttle, finalEvent, *)
(* initialEvent, animationEvent and startInterval, in the two versions of  *)
(* the source (src/src/events.ts and src/unnamed/part_000), together with  *)
(* the host services they use: the clock (Date.now), the deferred-call     *)
(* timers (setTimeout/clearTimeout), the periodic timers (setInterval/     *)
(* clearInterval) and the frame scheduler (requestAnimationFrame/          *)
(* cancelAnimationFrame).                                                  *)
(*                                                                         *)
(* The host is single-threaded: every handler runs to completion, so one   *)
(* action is one whole handler.  A host timer never runs before its delay  *)
(* has elapsed and may run late; handlers that are runnable at the same    *)
(* clock value run in any order.  The callback may throw: an exception     *)
(* thrown inside a call to a wrapped function cuts that call short; one    *)
(* thrown in a closure the host runs goes to the host and changes nothing, *)
(* so the history records `threw` for the synchronous invocations only.    *)
(***************************************************************************)
EXTENDS Integers, Sequences, FiniteSets, TLC

\* ---------------------------------------------------------------- bounds
MaxTime == 5
MaxCalls == 3
MaxTimeout == 2

\* ---------------------------------------------------------------- inputs
Args == {"a", "b"}
ArgLists == {<<x>> : x \in Args}
InitArgLists == {<<>>, <<"i">>}
\* The argument list used where two instances are called in turn: which
\* instance is called is the input that varies there.
InstanceArgLists == {<<"a">>}
Timeouts == 1..MaxTimeout
Sources == {"events.ts", "part_000"}
Inst == {1, 2}

\* `undefined`, for `let x: number | undefined`: an optional number is the
\* empty tuple or a one-element tuple.
Undefined == <<>>
Some(x) == <<x>>
Val(o) == o[1]

VARIABLES
  factory,          \* which factory built the wrapper(s) under observation
  src,              \* which source file's version of it
  timeout,          \* factory parameter
  executeLastEvent, \* factory parameter (throttle)
  initArguments,    \* factory parameter (part_000 only; <<>> in events.ts)
  now,              \* Date.now() / the host clock
  lastCall,         \* per instance: closure variable lastCall
  timer,            \* per instance: closure variable timer
  frame,            \* per instance: closure variable frame
  timeouts,         \* host: pending setTimeout entries
  frames,           \* host: pending requestAnimationFrame entries
  intervals,        \* host: live setInterval entries
  nextHandle,       \* host: next handle the host hands out
  returned,         \* startInterval: the handle returned to the caller
  calls,            \* history: the calls made to wrapped functions
  fired             \* history: the invocations of callback / handler

vars == <<factory, src, timeout, executeLastEvent, initArguments, now,
          lastCall, timer, frame, timeouts, frames, intervals, nextHandle,
          returned, calls, fired>>

hostVars == <<timeouts, frames, intervals, nextHandle>>
paramVars == <<factory, src, timeout, executeLastEvent, initArguments>>

\* ---------------------------------------------------------------- closures
\* Mutant of Own: the variables are declared once for the module, so every
\* wrapped function uses the same slots.
OwnShared(i) == 1

\* events.ts:22-23, 60, 88, 119: lastCall, timer and frame are declared inside
\* the factory, so the function returned by the i-th factory call reads and
\* writes the slots of its own closure.
Own(i) == i

\* ---------------------------------------------------------------- host
\* clearTimeout(h): the entry with that handle, if still pending, is removed;
\* an unknown or already-run handle is ignored.
clearTimeout(pending, h) == {t \in pending : t.id # h}

\* setTimeout(fn, delay): a new entry due `delay` after now.
setTimeout(pending, h, t, delay, fn) ==
  pending \cup {[id |-> h, due |-> t + delay, fn |-> fn]}

\* One invocation of callback, appended to the history.
\* `call` is the call to f whose arguments were captured, `seen` the number of
\* calls made so far.
Invocation(i, t, args, path, call, threw) ==
  [inst |-> i, at |-> t, args |-> args, path |-> path, call |-> call,
   seen |-> IF path = "immediate" THEN call ELSE Len(calls), threw |-> threw]

\* The host clock advances.
Tick ==
  /\ now < MaxTime
  /\ now' = now + 1
  /\ UNCHANGED <<paramVars, lastCall, timer, frame, hostVars, returned,
                 calls, fired>>

\* Mutant of LastCallAfterDeferred: the deferred closure records its run.
LastCallSetByDeferred(lc, t) == <<t>>

\* events.ts:34, 63: the deferred closure `() => callback(...args)` only
\* invokes callback; lastCall is as it was.
LastCallAfterDeferred(lc, t) == lc

\* The host runs a pending setTimeout entry whose delay has elapsed: the
\* closure `() => callback(...)` is invoked with its captured arguments.
TimeoutFire ==
  \E t \in timeouts :
    /\ now >= t.due
    /\ timeouts' = timeouts \ {t}
    /\ fired' = Append(fired, Invocation(t.fn.inst, now, t.fn.args,
                                         "deferred", t.fn.call, FALSE))
    /\ lastCall' = [lastCall EXCEPT
                      ![t.fn.inst] = LastCallAfterDeferred(@, now)]
    /\ UNCHANGED <<paramVars, now, timer, frame, frames,
                   intervals, nextHandle, returned, calls>>

\* ---------------------------------------------------------------- throttle
\* Mutant of ThrottleReady: the boundary counts as elapsed.
ThrottleReadyAtBoundary(lc, timeNow, to) ==
  lc = Undefined \/ timeNow - Val(lc) >= to

\* events.ts:26 / part_000:29
ThrottleReady(lc, timeNow, to) == lc = Undefined \/ timeNow - Val(lc) > to

\* The argument list of the immediate invocation: events.ts:28, part_000:31.
ThrottleImmediateArgs(file, callArguments, initArgs) == callArguments

\* The argument list the deferred closure passes: events.ts:34, part_000:37-40.
ThrottleDeferredArgs(file, callArguments, initArgs) ==
  IF file = "part_000" THEN callArguments \o initArgs ELSE callArguments

\* The timer slot after the immediate invocation returned: events.ts:29-32.
ThrottleClearedTimer(tm) == Undefined

\* Mutant of ThrottleMayArm: the flag is not consulted.
ThrottleArmWhateverFlag(exec, tm) == tm = Undefined

\* Mutant of ThrottleMayArm: every throttled call arms a deferred call.
ThrottleAlwaysArm(exec, tm) == exec

\* events.ts:33 else-branch guard
ThrottleMayArm(exec, tm) == exec /\ tm = Undefined

ThrottleCall(i, callArguments, threw) ==
  /\ factory = "throttle"
  /\ Len(calls) < MaxCalls
  /\ LET timeNow == now
         n == Len(calls) + 1
         rec(path) == [inst |-> i, at |-> timeNow, args |-> callArguments,
                       path |-> path, prev |-> lastCall[Own(i)]]
     IN
     IF ThrottleReady(lastCall[Own(i)], timeNow, timeout)
     THEN /\ lastCall' = [lastCall EXCEPT ![Own(i)] = Some(timeNow)]
          /\ fired' = Append(fired,
               Invocation(i, timeNow,
                          ThrottleImmediateArgs(src, callArguments, initArguments),
                          "immediate", n, threw))
          /\ IF ~threw /\ timer[Own(i)] # Undefined
             THEN /\ timeouts' = clearTimeout(timeouts, Val(timer[Own(i)]))
                  /\ timer' = [timer EXCEPT ![Own(i)] = ThrottleClearedTimer(timer[Own(i)])]
             ELSE UNCHANGED <<timeouts, timer>>
          /\ calls' = Append(calls, rec("immediate"))
          /\ UNCHANGED nextHandle
     ELSE IF ThrottleMayArm(executeLastEvent, timer[Own(i)])
     THEN /\ threw = FALSE
          /\ timeouts' = setTimeout(timeouts, nextHandle, timeNow, timeout,
               [inst |-> i, call |-> n,
                args |-> ThrottleDeferredArgs(src, callArguments, initArguments)])
          /\ timer' = [timer EXCEPT ![Own(i)] = Some(nextHandle)]
          /\ nextHandle' = nextHandle + 1
          /\ calls' = Append(calls, rec("armed"))
          /\ UNCHANGED <<lastCall, fired>>
     ELSE /\ threw = FALSE
          /\ calls' = Append(calls, rec("dropped"))
          /\ UNCHANGED <<lastCall, fired, timeouts, timer, nextHandle>>
  /\ UNCHANGED <<paramVars, now, frame, frames, intervals, returned>>


\* ---------------------------------------------------------------- finalEvent
\* Mutant of FinalEventCleared: the previous timer is left pending.
FinalEventNotCleared(pending, tm) == pending

\* events.ts:62: clearTimeout(timer), a no-op while timer is undefined.
FinalEventCleared(pending, tm) ==
  IF tm = Undefined THEN pending ELSE clearTimeout(pending, Val(tm))

\* Mutant of FinalEventDelay: the delay is not passed on to setTimeout.
FinalEventNoDelay(to) == 0

\* events.ts:63: the delay given to setTimeout.
FinalEventDelay(to) == to

\* events.ts:61-64 (part_000:67-70 is the same code)
FinalEventCall(i, args) ==
  /\ factory = "finalEvent"
  /\ Len(calls) < MaxCalls
  /\ timeouts' = setTimeout(FinalEventCleared(timeouts, timer[Own(i)]), nextHandle,
                            now, FinalEventDelay(timeout),
                            [inst |-> i, call |-> Len(calls) + 1, args |-> args])
  /\ timer' = [timer EXCEPT ![Own(i)] = Some(nextHandle)]
  /\ nextHandle' = nextHandle + 1
  /\ calls' = Append(calls, [inst |-> i, at |-> now, args |-> args,
                             path |-> "armed", prev |-> Undefined])
  /\ UNCHANGED <<paramVars, now, lastCall, frame, frames, intervals,
                 returned, fired>>


\* ---------------------------------------------------------------- initialEvent
\* events.ts:91-94 / part_000:100-103
InitialEventReady(lc, t, to) == lc = Undefined \/ t - Val(lc) > to

\* The argument list of the invocation: events.ts:95, part_000:104-107.
InitialEventArgs(file, callArguments, initArgs) ==
  IF file = "part_000" THEN callArguments \o initArgs ELSE callArguments

\* events.ts:89-98.  When callback throws, the exception leaves the wrapped
\* function before `lastCall = now` (events.ts:97) is reached.
InitialEventCall(i, callArguments, threw) ==
  /\ factory = "initialEvent"
  /\ Len(calls) < MaxCalls
  /\ IF InitialEventReady(lastCall[Own(i)], now, timeout)
     THEN /\ fired' = Append(fired,
               Invocation(i, now,
                          InitialEventArgs(src, callArguments, initArguments),
                          "immediate", Len(calls) + 1, threw))
          /\ lastCall' = IF threw THEN lastCall
                         ELSE [lastCall EXCEPT ![Own(i)] = Some(now)]
          /\ calls' = Append(calls, [inst |-> i, at |-> now,
                                     args |-> callArguments,
                                     path |-> "immediate",
                                     prev |-> lastCall[Own(i)]])
     ELSE /\ threw = FALSE
          /\ lastCall' = [lastCall EXCEPT ![Own(i)] = Some(now)]
          /\ calls' = Append(calls, [inst |-> i, at |-> now,
                                     args |-> callArguments,
                                     path |-> "dropped",
                                     prev |-> lastCall[Own(i)]])
          /\ UNCHANGED fired
  /\ UNCHANGED <<paramVars, now, timer, frame, hostVars, returned>>


\* ---------------------------------------------------------------- animationEvent
\* cancelAnimationFrame(h): as clearTimeout, on the frame registry.
cancelAnimationFrame(pending, h) == {t \in pending : t.id # h}

\* requestAnimationFrame(fn): a new entry, run at the next frame.
requestAnimationFrame(pending, h, fn) == pending \cup {[id |-> h, fn |-> fn]}

\* The frame timestamp as an element of an argument list.
TimeArg(t) == ToString(t)

\* Mutant of AnimationEventCancelled: the previous request is left pending.
AnimationEventNotCancelled(pending, fr) == pending

\* events.ts:121-123
AnimationEventCancelled(pending, fr) ==
  IF fr # Undefined THEN cancelAnimationFrame(pending, Val(fr)) ELSE pending

\* The argument list the frame closure passes: events.ts:124 appends the
\* timestamp, part_000:148-152 puts it first.
AnimationEventArgs(file, callArguments, initArgs, time) ==
  IF file = "part_000"
  THEN <<TimeArg(time)>> \o callArguments \o initArgs
  ELSE callArguments \o <<TimeArg(time)>>

\* events.ts:120-125 / part_000:142-153
AnimationEventCall(i, callArguments) ==
  /\ factory = "animationEvent"
  /\ Len(calls) < MaxCalls
  /\ frames' = requestAnimationFrame(AnimationEventCancelled(frames, frame[Own(i)]),
                                     nextHandle,
                                     [inst |-> i, call |-> Len(calls) + 1,
                                      args |-> callArguments])
  /\ frame' = [frame EXCEPT ![Own(i)] = Some(nextHandle)]
  /\ nextHandle' = nextHandle + 1
  /\ calls' = Append(calls, [inst |-> i, at |-> now, args |-> callArguments,
                             path |-> "armed", prev |-> Undefined])
  /\ UNCHANGED <<paramVars, now, lastCall, timer, timeouts, intervals,
                 returned, fired>>

\* The host renders a frame and runs a pending frame callback with the frame's
\* timestamp: `time => callback(...)`.
FrameFire ==
  \E t \in frames :
    /\ frames' = frames \ {t}
    /\ fired' = Append(fired,
         Invocation(t.fn.inst, now,
                    AnimationEventArgs(src, t.fn.args, initArguments, now),
                    "frame", t.fn.call, FALSE))
    /\ UNCHANGED <<paramVars, now, lastCall, timer, frame, timeouts,
                   intervals, nextHandle, returned, calls>>

\* ---------------------------------------------------------------- startInterval
\* The argument list of the immediate invocation: events.ts:141, `handler()`.
StartIntervalImmediateArgs(args) == <<>>

\* The argument list setInterval passes on each repetition: events.ts:142.
StartIntervalPeriodicArgs(args) == args

\* Mutant of StartIntervalDelay: the period is not passed on to setInterval.
StartIntervalNoDelay(to) == 0

\* events.ts:142: the period given to setInterval.
StartIntervalDelay(to) == to

\* events.ts:136-143 / part_000:164-171.  When handler throws, the exception
\* leaves startInterval before setInterval is reached.
StartInterval(args, threw) ==
  /\ factory = "startInterval"
  /\ calls = <<>>
  /\ fired' = Append(fired, Invocation(1, now, StartIntervalImmediateArgs(args),
                                       "immediate", 1, threw))
  /\ calls' = Append(calls, [inst |-> 1, at |-> now, args |-> args,
                             path |-> "immediate", prev |-> Undefined])
  /\ IF threw
     THEN UNCHANGED <<intervals, nextHandle, returned>>
     ELSE /\ intervals' = intervals \cup
               {[id |-> nextHandle, due |-> now + StartIntervalDelay(timeout),
                 period |-> StartIntervalDelay(timeout),
                 fn |-> [inst |-> 1, call |-> 1,
                         args |-> StartIntervalPeriodicArgs(args)]]}
          /\ returned' = Some(nextHandle)
          /\ nextHandle' = nextHandle + 1
  /\ UNCHANGED <<paramVars, now, lastCall, timer, frame, timeouts, frames>>

\* The host runs a live setInterval entry whose period has elapsed and
\* schedules its next repetition one period after this run.
IntervalFire ==
  \E t \in intervals :
    /\ now >= t.due
    /\ intervals' = (intervals \ {t}) \cup {[t EXCEPT !.due = now + t.period]}
    /\ fired' = Append(fired, Invocation(t.fn.inst, now, t.fn.args,
                                         "periodic", t.fn.call, FALSE))
    /\ UNCHANGED <<paramVars, now, lastCall, timer, frame, timeouts, frames,
                   nextHandle, returned, calls>>

\* The caller cancels the handle startInterval returned: clearInterval(handle).
ClearInterval ==
  /\ returned # Undefined
  /\ \E t \in intervals : t.id = Val(returned)
  /\ intervals' = {t \in intervals : t.id # Val(returned)}
  /\ UNCHANGED <<paramVars, now, lastCall, timer, frame, timeouts, frames,
                 nextHandle, returned, calls, fired>>

\* ---------------------------------------------------------------- init
InitState ==
  /\ now = 0
  /\ lastCall = [i \in Inst |-> Undefined]
  /\ timer = [i \in Inst |-> Undefined]
  /\ frame = [i \in Inst |-> Undefined]
  /\ timeouts = {}
  /\ frames = {}
  /\ intervals = {}
  /\ nextHandle = 1
  /\ returned = Undefined
  /\ calls = <<>>
  /\ fired = <<>>

\* The parameters the factory f was called with.  Only throttle takes
\* executeLastEvent; animationEvent takes no timeout; only part_000's throttle,
\* initialEvent and animationEvent take initArguments.
InitParams(f) ==
  /\ factory = f
  /\ src \in Sources
  /\ timeout \in (IF f = "animationEvent" THEN {0} ELSE Timeouts)
  /\ executeLastEvent \in (IF f = "throttle" THEN BOOLEAN ELSE {TRUE})
  /\ initArguments \in
       (IF src = "part_000" /\ f \in {"throttle", "initialEvent", "animationEvent"}
        THEN InitArgLists ELSE {<<>>})

InitThrottle == InitParams("throttle") /\ InitState

NextThrottle ==
  \/ Tick
  \/ TimeoutFire
  \/ \E a \in ArgLists, threw \in BOOLEAN : ThrottleCall(1, a, threw)

SpecThrottle == InitThrottle /\ [][NextThrottle]_vars

InitFinalEvent == InitParams("finalEvent") /\ InitState

NextFinalEvent ==
  \/ Tick
  \/ TimeoutFire
  \/ \E a \in ArgLists : FinalEventCall(1, a)

SpecFinalEvent == InitFinalEvent /\ [][NextFinalEvent]_vars

InitInitialEvent == InitParams("initialEvent") /\ InitState

NextInitialEvent ==
  \/ Tick
  \/ \E a \in ArgLists, threw \in BOOLEAN : InitialEventCall(1, a, threw)

SpecInitialEvent == InitInitialEvent /\ [][NextInitialEvent]_vars

InitAnimationEvent == InitParams("animationEvent") /\ InitState

NextAnimationEvent ==
  \/ Tick
  \/ FrameFire
  \/ \E a \in ArgLists : AnimationEventCall(1, a)

SpecAnimationEvent == InitAnimationEvent /\ [][NextAnimationEvent]_vars

InitStartInterval == InitParams("startInterval") /\ InitState

NextStartInterval ==
  \/ Tick
  \/ IntervalFire
  \/ ClearInterval
  \/ \E a \in ArgLists \cup {<<>>}, threw \in BOOLEAN : StartInterval(a, threw)

SpecStartInterval == InitStartInterval /\ [][NextStartInterval]_vars

\* Two wrapped functions made by two calls to the same factory with the same
\* callback, called in any order. No extra factory arguments are passed: they
\* are only forwarded to callback and never stored in a closure variable.
InitInstances ==
  \E f \in {"throttle", "finalEvent", "initialEvent", "animationEvent"} :
    InitParams(f) /\ initArguments = <<>> /\ InitState

NextInstances ==
  \/ Tick
  \/ TimeoutFire
  \/ FrameFire
  \/ \E i \in Inst, a \in InstanceArgLists, threw \in BOOLEAN : ThrottleCall(i, a, threw)
  \/ \E i \in Inst, a \in InstanceArgLists : FinalEventCall(i, a)
  \/ \E i \in Inst, a \in InstanceArgLists, threw \in BOOLEAN : InitialEventCall(i, a, threw)
  \/ \E i \in Inst, a \in InstanceArgLists : AnimationEventCall(i, a)

SpecInstances == InitInstances /\ [][NextInstances]_vars

Factories ==
  {"throttle", "finalEvent", "initialEvent", "animationEvent", "startInterval"}

Init == \E f \in Factories : InitParams(f) /\ InitState

Next ==
  \/ Tick
  \/ TimeoutFire
  \/ FrameFire
  \/ IntervalFire
  \/ ClearInterval
  \/ \E a \in ArgLists, threw \in BOOLEAN : ThrottleCall(1, a, threw)
  \/ \E a \in ArgLists : FinalEventCall(1, a)
  \/ \E a \in ArgLists, threw \in BOOLEAN : InitialEventCall(1, a, threw)
  \/ \E a \in ArgLists : AnimationEventCall(1, a)
  \/ \E a \in ArgLists \cup {<<>>}, threw \in BOOLEAN : StartInterval(a, threw)

Spec == Init /\ [][Next]_vars

\* ---------------------------------------------------------------- history
CallIdx == 1..Len(calls)
FiredIdx == 1..Len(fired)
Immediate == {k \in FiredIdx : fired[k].path = "immediate"}
Deferred == {k \in FiredIdx : fired[k].path = "deferred"}

\* ---------------------------------------------------------------- claims
\* C1 (as stated in the doc comment of throttle): the callback is fired only
\* if more than timeout has elapsed since the last time it was fired, i.e. any
\* two consecutive invocations, immediate or deferred, are more than timeout
\* apart.
C1_FiredOnlyAfterTimeout ==
  factory = "throttle" =>
    \A k \in FiredIdx :
      k > 1 => fired[k].at - fired[k - 1].at > timeout

\* The calls made so far all fall within a window shorter than timeout.
C2_Window ==
  /\ factory = "throttle"
  /\ executeLastEvent
  /\ Len(calls) >= 2
  /\ calls[Len(calls)].at - calls[1].at < timeout

C3_BoundaryIsThrottled ==
  factory = "throttle" =>
    \A k \in CallIdx :
      /\ (calls[k].prev # Undefined /\ calls[k].at - Val(calls[k].prev) = timeout)
           => /\ calls[k].path # "immediate"
              /\ \A j \in Immediate : fired[j].call # k
      /\ calls[k].path = "immediate"
           => \/ calls[k].prev = Undefined
              \/ calls[k].at - Val(calls[k].prev) > timeout

C3_Witness ==
  /\ factory = "throttle"
  /\ \E k \in CallIdx :
       /\ calls[k].prev # Undefined
       /\ calls[k].at - Val(calls[k].prev) = timeout
       /\ calls[k].path = "armed"

\* C4 (as stated for @param executeLastEvent): with executeLastEvent the last
\* event is always fired: once nothing is pending any more, callback has been
\* invoked, at or after the last call, with the arguments of the last call.
C4_LastEventAlwaysFired ==
  (factory = "throttle" /\ executeLastEvent /\ calls # <<>> /\ timeouts = {}) =>
    \E k \in FiredIdx :
      /\ fired[k].at >= calls[Len(calls)].at
      /\ SubSeq(fired[k].args, 1, Len(calls[Len(calls)].args))
           = calls[Len(calls)].args

\* Call k ends its burst: no later call follows it by less than timeout.
EndsBurst(k) ==
  k = Len(calls) \/ calls[k + 1].at - calls[k].at >= timeout

FiredFor(k) == {j \in FiredIdx : fired[j].call = k}

\* C5: finalEvent: a call that is followed by another call less than timeout
\* later is never invoked; the last call of a burst is invoked at most once,
\* no earlier than timeout after it and with its own arguments; and when the
\* timer armed by the last call of the burst has run (nothing is pending),
\* that call has been invoked exactly once.
C5_BurstFiresOnceForLastCall ==
  factory = "finalEvent" =>
    /\ \A k \in CallIdx :
         /\ ~EndsBurst(k) => FiredFor(k) = {}
         /\ Cardinality(FiredFor(k)) <= 1
         /\ \A j \in FiredFor(k) :
              /\ fired[j].at >= calls[k].at + timeout
              /\ fired[j].args = calls[k].args
    /\ (calls # <<>> /\ timeouts = {}) =>
         Cardinality(FiredFor(Len(calls))) = 1

C5_Witness ==
  /\ factory = "finalEvent"
  /\ Len(calls) = 3
  /\ timeout > 1
  /\ calls[2].at > calls[1].at
  /\ calls[3].at > calls[2].at
  /\ ~EndsBurst(1) /\ ~EndsBurst(2)
  /\ calls[3].args # calls[2].args
  /\ Len(fired) = 1
  /\ fired[1].call = 3
  /\ timeouts = {}

\* C6: finalEvent never invokes callback inside a call to f, and every
\* invocation is made by a timer, for the most recent call to f and no earlier
\* than timeout after that call.
C6_NoLeadingInvocation ==
  /\ [][calls' # calls => fired' = fired]_vars
  /\ [](factory = "finalEvent" =>
          \A j \in FiredIdx :
            /\ fired[j].path = "deferred"
            /\ fired[j].seen >= 1
            /\ fired[j].call = fired[j].seen
            /\ fired[j].at >= calls[fired[j].seen].at + timeout)

C6_Witness ==
  /\ factory = "finalEvent"
  /\ Len(calls) >= 2
  /\ Len(fired) >= 2

\* C7: initialEvent: a call to f invokes callback, synchronously and with that
\* call's arguments, if and only if it is the first call or more than timeout
\* has elapsed since the previous call to f.
C7_FiresIffQuietSincePreviousCall ==
  factory = "initialEvent" =>
    \A k \in CallIdx :
      /\ calls[k].path = "immediate"
           <=> (k = 1 \/ calls[k].at - calls[k - 1].at > timeout)
      /\ calls[k].path = "immediate" =>
           \E j \in FiredIdx :
             /\ fired[j].call = k
             /\ fired[j].at = calls[k].at
             /\ fired[j].args = calls[k].args \o initArguments

\* `sub` occurs in `list` as a contiguous run.
Carries(list, sub) ==
  \E q \in 0..(Len(list) - Len(sub)) : SubSeq(list, q + 1, q + Len(sub)) = sub

\* C8: animationEvent: every invocation is made at a frame for the most recent
\* call to f (the k-th of the calls issued since the previous frame) and
\* carries that call's arguments; a call superseded before the frame is never
\* invoked; no call is invoked twice; at most one request is pending; and once
\* the frame has run, the most recent call has been invoked exactly once.
C8_FrameCoalescesToLastCall ==
  factory = "animationEvent" =>
    /\ Cardinality(frames) <= 1
    /\ \A j \in FiredIdx :
         /\ fired[j].path = "frame"
         /\ fired[j].call = fired[j].seen
         /\ Carries(fired[j].args, calls[fired[j].seen].args)
    /\ \A k \in CallIdx : Cardinality(FiredFor(k)) <= 1
    /\ (calls # <<>> /\ frames = {}) =>
         Cardinality(FiredFor(Len(calls))) = 1

C8_Witness ==
  /\ factory = "animationEvent"
  /\ Len(calls) = 3
  /\ calls[3].args # calls[2].args
  /\ Len(fired) = 1
  /\ fired[1].call = 3
  /\ frames = {}

\* C9 (as stated in the doc comment of animationEvent in part_000): callback
\* receives the factory's extra parameters first, then the arguments of the
\* captured call to f, and the frame timestamp last.
C9_InitThenCallThenTime ==
  factory = "animationEvent" =>
    \A j \in FiredIdx :
      fired[j].args =
        initArguments \o calls[fired[j].call].args \o <<TimeArg(fired[j].at)>>

\* C10: startInterval: the immediate invocation receives the argument list
\* args, the same list every periodic invocation receives.
C10_ImmediateGetsArgs ==
  factory = "startInterval" =>
    \A j \in FiredIdx : fired[j].args = calls[fired[j].call].args

Periodic == {k \in FiredIdx : fired[k].path = "periodic"}

\* The handle startInterval returned has been cancelled by the caller.
Cancelled ==
  returned # Undefined /\ ~ \E t \in intervals : t.id = Val(returned)

\* C11: startInterval invokes handler exactly once synchronously, at the time
\* of the call and before anything else; the periodic invocations belong to
\* the returned handle, the first comes no earlier than timeout after the call
\* and each next one no earlier than timeout after the previous one (at most
\* one per elapsed interval); and once the caller has cancelled the returned
\* handle, no step invokes handler again.
C11_OnceNowThenPerIntervalUntilCancelled ==
  /\ [](factory = "startInterval" =>
          /\ calls # <<>> =>
               /\ Immediate = {1}
               /\ fired[1].at = calls[1].at
          /\ Periodic # {} => returned # Undefined
          /\ \A k \in Periodic :
               /\ fired[k].at >= fired[k - 1].at + timeout
               /\ (k - 1) * timeout <= fired[k].at - calls[1].at)
  /\ [][Cancelled => fired' = fired]_vars

C11_Witness ==
  /\ factory = "startInterval"
  /\ Cancelled
  /\ Cardinality(Periodic) >= 2
  /\ now >= fired[Len(fired)].at + timeout

\* What belongs to the i-th wrapped function: its pending host entries and
\* the invocations made for it.
PendingOf(i) == {t \in timeouts : t.fn.inst = i}
FramesOf(i) == {t \in frames : t.fn.inst = i}
FiredOf(i) == SelectSeq(fired, LAMBDA e : e.inst = i)

\* This step is a call to the j-th wrapped function or the run of a timer or
\* frame request it made.
StepBy(j) ==
  \/ Len(calls') > Len(calls) /\ calls'[Len(calls')].inst = j
  \/ Len(fired') > Len(fired) /\ fired'[Len(fired')].inst = j

\* C12: for two wrapped functions made by the same factory with the same
\* callback, a call to one, or the run of one's timer or frame request, leaves
\* the other's lastCall, timer and frame, its pending timer and frame entries
\* and the invocations made for it unchanged.
C12_InstancesIndependent ==
  [][\A j \in Inst : \A i \in Inst \ {j} :
       StepBy(j) =>
         /\ lastCall'[i] = lastCall[i]
         /\ timer'[i] = timer[i]
         /\ frame'[i] = frame[i]
         /\ PendingOf(i)' = PendingOf(i)
         /\ FramesOf(i)' = FramesOf(i)
         /\ FiredOf(i)' = FiredOf(i)]_vars

C12_Witness ==
  /\ PendingOf(2) # {}
  /\ timer[1] # Undefined
  /\ PendingOf(1) = {}
  /\ \E j \in FiredIdx :
       /\ fired[j].inst = 1
       /\ fired[j].path = "deferred"
       /\ \E k \in 1..fired[j].seen : calls[k].inst = 2 /\ calls[k].path = "armed"

\* C13: for every instance of throttle, finalEvent and animationEvent, at most
\* one deferred invocation (timer or frame request) is pending in the host at
\* any time, and the one pending is the one the instance's slot names.
C13_AtMostOnePending ==
  factory \in {"throttle", "finalEvent", "animationEvent"} =>
    \A i \in Inst :
      /\ Cardinality(PendingOf(i)) <= 1
      /\ Cardinality(FramesOf(i)) <= 1
      /\ \A t \in PendingOf(i) : timer[i] = Some(t.id)
      /\ \A t \in FramesOf(i) : frame[i] = Some(t.id)

\* An instance has armed a second deferred invocation after its first one was
\* cancelled or has run, while the other instance has one pending too.
C13_Witness ==
  /\ factory \in {"throttle", "finalEvent", "animationEvent"}
  /\ \E i \in Inst :
       /\ PendingOf(i) \cup FramesOf(i) # {}
       /\ \A t \in PendingOf(i) \cup FramesOf(i) : t.id >= 2
       /\ Cardinality({k \in CallIdx : calls[k].inst = i /\ calls[k].path = "armed"}) >= 2
       /\ \E j \in Inst \ {i} : PendingOf(j) \cup FramesOf(j) # {}

\* C14: throttle: a call that takes the immediate path leaves no deferred call
\* pending and the timer slot undefined, so a trailing invocation armed
\* before an immediate invocation never runs after it.
C14_ImmediateCancelsTrailing ==
  factory = "throttle" =>
    /\ (calls # <<>> /\ calls[Len(calls)].path = "immediate") =>
         /\ timer[1] = Undefined
         /\ timeouts = {}
    /\ \A j \in Deferred : \A m \in CallIdx :
         (calls[m].path = "immediate" /\ fired[j].call < m) => fired[j].seen < m

\* The same statement for histories in which callback never threw.
C14_HoldsWhenNothingThrows ==
  (\A j \in FiredIdx : ~fired[j].threw) => C14_ImmediateCancelsTrailing

\* The immediate invocations made before call k.
ImmediateBefore(k) == {j \in Immediate : fired[j].call < k}

\* The latest invocation in the set S of indices of the history.
Latest(S) == CHOOSE j \in S : \A h \in S : h <= j

C16_SlotTellsPending ==
  factory \in {"throttle", "finalEvent"} =>
    /\ timer[1] = Undefined <=> PendingOf(1) = {}
    /\ timer[1] # Undefined => \E t \in PendingOf(1) : t.id = Val(timer[1])

\* C17: initialEvent: after every call to f, whether callback fired, was
\* suppressed or threw, lastCall is the time of that call.
C17_LastCallIsPreviousCall ==
  (factory = "initialEvent" /\ calls # <<>>) =>
    lastCall[1] = Some(calls[Len(calls)].at)

\* The same statement for histories in which callback never threw.
C17_HoldsWhenNothingThrows ==
  (\A j \in FiredIdx : ~fired[j].threw) => C17_LastCallIsPreviousCall

\* C18: throttle with executeLastEvent = false: the timer slot is undefined
\* and nothing is pending in every reachable state, every invocation is made
\* synchronously inside the call whose arguments it carries, and a call inside
\* the cooldown window is dropped and never invoked.
C18_NoTrailingWithoutFlag ==
  (factory = "throttle" /\ ~executeLastEvent) =>
    /\ timer[1] = Undefined
    /\ timeouts = {}
    /\ \A j \in FiredIdx :
         /\ fired[j].path = "immediate"
         /\ fired[j].at = calls[fired[j].call].at
         /\ calls[fired[j].call].path = "immediate"
    /\ \A k \in CallIdx :
         /\ calls[k].path \in {"immediate", "dropped"}
         /\ calls[k].path = "dropped" => FiredFor(k) = {}

\* Without the flag a call was dropped and the cooldown has since passed.
C18_Witness ==
  /\ factory = "throttle"
  /\ ~executeLastEvent
  /\ \E k \in CallIdx :
       /\ calls[k].path = "dropped"
       /\ now > calls[k].at + timeout
       /\ k < Len(calls)

\* C19: throttle with executeLastEvent = true: once nothing is pending, every
\* call has been followed by an invocation, i.e. the wrapped function has
\* been invoked during or after the last call made before a quiet period.
C19_QuietPeriodWasPrecededByInvocation ==
  (factory = "throttle" /\ executeLastEvent /\ timeouts = {}) =>
    \A k \in CallIdx : \E j \in FiredIdx : fired[j].seen >= k

\* The same, restricted to schedules where the timer slot is never stale:
\* no call is made once the deferred invocation has run and before the next
\* immediate invocation cleared the slot.
C19_HoldsWhileSlotIsFresh ==
  (\A k \in CallIdx : calls[k].path # "dropped") =>
    C19_QuietPeriodWasPrecededByInvocation

\* C20: in the variant with extra factory arguments, throttle and
\* initialEvent hand callback the arguments of the call followed by
\* initArguments, on the immediate path and on the deferred one alike.
C20_SameArgumentsOnBothPaths ==
  (src = "part_000" /\ factory \in {"throttle", "initialEvent"}) =>
    \A j \in FiredIdx :
      fired[j].args = calls[fired[j].call].args \o initArguments

\* The deferred path and initialEvent do pass the call's arguments followed
\* by initArguments; only throttle's immediate path differs.
C20_HoldsOffTheImmediatePath ==
  (src = "part_000" /\ factory \in {"throttle", "initialEvent"}) =>
    \A j \in FiredIdx :
      (factory = "initialEvent" \/ fired[j].path = "deferred") =>
        fired[j].args = calls[fired[j].call].args \o initArguments

====
